---- MODULE Spec2Model ----
(***************************************************************************)
(* SentiTune-CN: the inference engine (SentimentAnalyzer.analyze) and the  *)
(* tuning tools (ModelTuner.build_custom_dict, optimize_thresholds).       *)
(*                                                                         *)
(* Numbers.  Python floats are modelled as exact rationals <<n, d>> with   *)
(* d > 0 and gcd(n, d) = 1, so that equality of values is equality of      *)
(* tuples.  <<0, 0>> stands for a JSON value that is not a number.         *)
(***************************************************************************)
EXTENDS Integers, Sequences, FiniteSets, TLC

(***************************************************************************)
(* Bounds of the model.                                                    *)
(***************************************************************************)
MaxWords == 3
MaxSamples == 2
MaxCount == 1

(***************************************************************************)
(* Rational arithmetic.                                                    *)
(***************************************************************************)
Abs(x) == IF x < 0 THEN -x ELSE x

RECURSIVE GCD(_, _)
GCD(a, b) == IF b = 0 THEN a ELSE GCD(b, a % b)

Rat(n, d) ==
    LET g == GCD(Abs(n), d)
    IN  <<n \div g, d \div g>>

\* common factors are divided out before multiplying, to keep the integers small
RAdd(x, y) ==
    LET g == GCD(x[2], y[2])
    IN  Rat(x[1] * (y[2] \div g) + y[1] * (x[2] \div g), (x[2] \div g) * y[2])
RSub(x, y) == RAdd(x, <<-y[1], y[2]>>)
RMul(x, y) ==
    LET g == GCD(Abs(x[1]), y[2])
        h == GCD(Abs(y[1]), x[2])
    IN  Rat((x[1] \div g) * (y[1] \div h), (x[2] \div h) * (y[2] \div g))
\* x / y for y > 0
RDiv(x, y) == RMul(x, <<y[2], y[1]>>)
RAbs(x) == <<Abs(x[1]), x[2]>>
RLt(x, y) ==
    LET g == GCD(x[2], y[2])
    IN  x[1] * (y[2] \div g) < y[1] * (x[2] \div g)
RLe(x, y) ==
    LET g == GCD(x[2], y[2])
    IN  x[1] * (y[2] \div g) <= y[1] * (x[2] \div g)
RMin(x, y) == IF RLe(x, y) THEN x ELSE y
RMax(x, y) == IF RLe(x, y) THEN y ELSE x
RInt(k) == <<k, 1>>

RECURSIVE RSum(_)
RSum(s) == IF s = <<>> THEN RInt(0) ELSE RAdd(Head(s), RSum(Tail(s)))

Range(f) == {f[i] : i \in DOMAIN f}

NonNumeric == <<0, 0>>
IsNumber(x) == x[2] > 0

(***************************************************************************)
(* The external sentiment primitive (SnowNLP): for a text it yields a      *)
(* token sequence (s.words) and a raw score in [0,1] (s.sentiments), and   *)
(* any of its three calls may fail.                                        *)
(***************************************************************************)
Tokens == {"t1", "t2"}

WordSeqs == UNION {[1..k -> Tokens] : k \in 0..MaxWords}

RawScores == {Rat(0, 1), Rat(3, 10), Rat(1, 2), Rat(7, 10), Rat(1, 1)}

PrimitiveFaults == {"none", "sentiments", "words", "keywords"}

Texts == [words : WordSeqs, sentiments : RawScores, fault : PrimitiveFaults]

(***************************************************************************)
(* The lexicon / threshold snapshot the analyzer reads (self.custom_dict,  *)
(* self.thresholds).  "unset" is an attribute that was never assigned; a   *)
(* threshold mapping may lack a key; a lexicon value may be out of [0,1]   *)
(* (the lexicon is not clamped) or not a number.                           *)
(***************************************************************************)
LexValues == {Rat(0, 1), Rat(1, 2), Rat(9, 10), Rat(1, 1), Rat(3, 2), NonNumeric}

Lexicons == UNION {[D -> LexValues] : D \in SUBSET Tokens}

ThresholdMaps ==
    { [positive |-> Rat(7, 10), negative |-> Rat(3, 10)],
      [positive |-> Rat(3, 5), negative |-> Rat(1, 2)],
      [positive |-> Rat(7, 10)],
      <<>> }


(***************************************************************************)
(* The tuning corpus.  A sample is a text with its sentiment label; the    *)
(* primitive's answers for the text (s.words, s.sentiments) are part of    *)
(* the text.  The raw scores lie strictly between grid points, so that a   *)
(* comparison with a threshold does not depend on floating-point rounding. *)
(***************************************************************************)
TunerTexts ==
    { [words |-> <<"t1", "t1", "t1">>, sentiments |-> Rat(65, 100)],
      [words |-> <<"t2">>,             sentiments |-> Rat(31, 100)],
      [words |-> <<"t1", "t2">>,       sentiments |-> Rat(63, 100)] }

Labels == {Rat(1, 10), Rat(1, 2), Rat(9, 10)}

Samples == [text : TunerTexts, sentiment : Labels]

SampleLists == UNION {[1..k -> Samples] : k \in 0..MaxSamples}

(***************************************************************************)
(* ModelTuner.optimize_thresholds and _calculate_accuracy.                 *)
(***************************************************************************)
\* lines 97-98.  np.arange(0.6, 0.9, 0.02) has ceil((0.9 - 0.6) / 0.02) elements and
\* 0.9 - 0.6 is 0.30000000000000004 in double precision: 16 elements, 0.60 .. 0.90.
\* np.arange(0.2, 0.5, 0.02) has 15 elements, 0.20 .. 0.48.
pos_range == [i \in 1..16 |-> Rat(60 + 2 * (i - 1), 100)]
neg_range == [i \in 1..15 |-> Rat(20 + 2 * (i - 1), 100)]

\* lines 134-138
pred_sentiment(pred_score, pos_thresh, neg_thresh) ==
    IF RLt(pos_thresh, pred_score) THEN RInt(1)
    ELSE IF RLt(pred_score, neg_thresh) THEN RInt(0)
    ELSE Rat(1, 2)

\* lines 129-142: the number of samples predicted within 0.3 of their label
RECURSIVE correct(_, _, _)
correct(scores, pos_thresh, neg_thresh) ==
    IF scores = <<>> THEN 0
    ELSE (IF RLt(RAbs(RSub(pred_sentiment(Head(scores).text.sentiments, pos_thresh, neg_thresh),
                           Head(scores).sentiment)),
                 Rat(3, 10))
          THEN 1 ELSE 0)
         + correct(Tail(scores), pos_thresh, neg_thresh)

\* lines 126-144; the caller never passes an empty list to it without failing (line 144)
_calculate_accuracy(scores, pos_thresh, neg_thresh) ==
    Rat(correct(scores, pos_thresh, neg_thresh), Len(scores))

\* the body of the inner loop with the two thresholds stored under each other's key
grid_cell_swapped(i, j, scores, best) ==
    IF RLe(pos_range[i], neg_range[j]) THEN best
    ELSE LET accuracy == _calculate_accuracy(scores, pos_range[i], neg_range[j])
         IN  IF RLt(best.accuracy, accuracy)
             THEN [ accuracy |-> accuracy,
                    thresholds |-> [positive |-> neg_range[j], negative |-> pos_range[i]] ]
             ELSE best

\* lines 102-112, the body of the inner loop for the cell pos_range[i], neg_range[j];
\* best.thresholds is <<>> while no cell has replaced the copy of self.thresholds
\* made at line 94
grid_cell(i, j, scores, best) ==
    IF RLe(pos_range[i], neg_range[j]) THEN best
    ELSE LET accuracy == _calculate_accuracy(scores, pos_range[i], neg_range[j])
         IN  IF RLt(best.accuracy, accuracy)
             THEN [ accuracy |-> accuracy,
                    thresholds |-> [positive |-> pos_range[i], negative |-> neg_range[j]] ]
             ELSE best

\* line 101: the inner loop from neg_range[j] on, for pos_range[i]; as in
\* pos_loop, nothing after an accuracy of 1 replaces the best cell
RECURSIVE neg_loop(_, _, _, _)
neg_loop(i, j, scores, best) ==
    IF j > Len(neg_range) \/ best.accuracy = RInt(1) THEN best
    ELSE neg_loop(i, j + 1, scores, grid_cell(i, j, scores, best))

\* line 100: the outer loop from pos_range[i] on; once the accuracy is 1 no later
\* cell is strictly better (line 107), so the rest of the grid is not computed
RECURSIVE pos_loop(_, _, _)
pos_loop(i, scores, best) ==
    IF i > Len(pos_range) \/ best.accuracy = RInt(1) THEN best
    ELSE pos_loop(i + 1, scores, neg_loop(i, 1, scores, best))

\* lines 93-112 for every non-empty sample list, computed once
\* (combined with the empty function so that the table is built once, not per use)
searched ==
    <<>> @@ [scores \in SampleLists \ {<<>>} |->
        pos_loop(1, scores, [accuracy |-> RInt(0), thresholds |-> <<>>])]

\* lines 93-94 and 114: best_thresholds starts as a copy of self.thresholds
best_thresholds(scores, thresholds_before) ==
    LET best == IF scores \in DOMAIN searched THEN searched[scores]
                ELSE pos_loop(1, scores, [accuracy |-> RInt(0), thresholds |-> <<>>])
    IN  IF best.thresholds = <<>> THEN thresholds_before ELSE best.thresholds

(***************************************************************************)
(* ModelTuner.build_custom_dict.                                           *)
(***************************************************************************)
\* np.exp on [0, 1/2], by its Taylor polynomial of degree 4 (error below 0.0003)
exp(x) ==
    RAdd(RAdd(RInt(1), x),
         RAdd(RDiv(RMul(x, x), RInt(2)),
              RAdd(RDiv(RMul(x, RMul(x, x)), RInt(6)),
                   RDiv(RMul(RMul(x, x), RMul(x, x)), RInt(24)))))

\* lines 66-67 for one sample: its label once per occurrence of word in its words
RECURSIVE occurrences(_, _, _)
occurrences(word, words, sentiment) ==
    IF words = <<>> THEN <<>>
    ELSE (IF Head(words) = word THEN <<sentiment>> ELSE <<>>)
         \o occurrences(word, Tail(words), sentiment)

\* lines 62-67: the observation list of word over the samples, in order
RECURSIVE observations(_, _)
observations(word, samples) ==
    IF samples = <<>> THEN <<>>
    ELSE occurrences(word, Head(samples).text.words, Head(samples).sentiment)
         \o observations(word, Tail(samples))

\* lines 59-67: word_sentiments has a key for every word that was seen
word_sentiments(samples) ==
    [word \in {w \in Tokens : observations(w, samples) # <<>>} |-> observations(word, samples)]

\* lines 72-73: np.average(scores, weights = np.exp(np.abs(np.array(scores) - 0.5)))
weighted_average(scores) ==
    LET weights == [i \in 1..Len(scores) |-> exp(RAbs(RSub(scores[i], Rat(1, 2))))]
    IN  RDiv(RSum([i \in 1..Len(scores) |-> RMul(scores[i], weights[i])]), RSum(weights))

\* lines 70-73: the value assigned to every word seen
averaged(samples) ==
    LET seen == word_sentiments(samples)
    IN  [word \in DOMAIN seen |-> weighted_average(seen[word])]

\* lines 59-73 for every sample list, computed once
\* (combined with the empty function so that the table is built once, not per use)
assigned == <<>> @@ [samples \in SampleLists |-> averaged(samples)]

\* lines 70-73: the entries of the words seen are assigned, the others are kept
built_dict(dict_before, samples) ==
    LET new == IF samples \in DOMAIN assigned THEN assigned[samples] ELSE averaged(samples)
    IN  [word \in DOMAIN dict_before \cup DOMAIN new |->
            IF word \in DOMAIN new THEN new[word] ELSE dict_before[word]]

(***************************************************************************)
(* Persisted artifacts: a JSON file is absent or holds a value.            *)
(***************************************************************************)
\* a Python attribute holding None, or a value
None == [set |-> FALSE]
Some(value) == [set |-> TRUE, value |-> value]

NoFile == [exists |-> FALSE]
File(content) == [exists |-> TRUE, content |-> content]

VARIABLES
    custom_dict,         \* ModelTuner.custom_dict
    thresholds,          \* ModelTuner.thresholds
    cur_custom_dict,     \* the file custom_dict.json
    ts_custom_dict,      \* the file models/custom_dict_<timestamp>.json last written
    cur_thresholds,      \* the file thresholds.json
    ts_thresholds,       \* the file models/thresholds_<timestamp>.json last written
    tn_call,             \* the last call on the tuner and its arguments
    tn_raised,           \* the last call on the tuner raised to its caller
    validation_metrics,  \* ModelTuner.validation_metrics
    an_dict_set,      \* the analyzer has a custom_dict attribute
    an_custom_dict,   \* SentimentAnalyzer.custom_dict
    an_thr_set,       \* the analyzer has a thresholds attribute
    an_thresholds,    \* SentimentAnalyzer.thresholds
    an_text,          \* the text given to analyze (the primitive's answers for it)
    an_outcome,       \* what the call gave its caller; "pending" before the call
    training_data,       \* TuningManager.training_data
    gen_call,            \* the last call of generate_data: its count, its list before shuffling
    cur_training_data,   \* the file data/current_training_data.csv
    ts_training_data,    \* the file data/training_data_<timestamp>.csv last written
    eval_report,         \* the file evaluation/evaluation_<timestamp>.txt last written
    mg_call,             \* the last call on the manager and the stages it started
    mg_raised,           \* the last call on the manager raised to its caller
    models_custom_dict,  \* the file models/custom_dict.json
    models_thresholds,   \* the file models/thresholds.json
    latest_metrics,      \* the file evaluation/latest_metrics.json
    model_info,          \* SentimentApp.model_info
    app_call             \* the last handler of the application that ran

tuner_vars == <<custom_dict, thresholds, cur_custom_dict, ts_custom_dict,
                cur_thresholds, ts_thresholds, tn_call, tn_raised, validation_metrics>>
analyzer_vars == <<an_dict_set, an_custom_dict, an_thr_set, an_thresholds, an_text, an_outcome>>
manager_vars == <<training_data, gen_call, cur_training_data, ts_training_data,
                  eval_report, mg_call, mg_raised>>
app_vars == <<models_custom_dict, models_thresholds, latest_metrics, model_info, app_call>>
vars == <<tuner_vars, analyzer_vars, manager_vars, app_vars>>

(***************************************************************************)
(* SentimentAnalyzer.analyze, lines 11-86: the body of the try block.      *)
(* Its value is either [raised |-> TRUE, error |-> message] or             *)
(* [raised |-> FALSE, value |-> the returned dictionary].                  *)
(***************************************************************************)
Raise(msg) == [raised |-> TRUE, error |-> msg]
Return(v) == [raised |-> FALSE, value |-> v]

\* custom_scores with the membership test of line 22 lost: on a defaultdict(float)
\* every word then yields a value, 0.0 when it is not in the lexicon
custom_scores_default(words, dict) ==
    [i \in 1..Len(words) |-> IF words[i] \in DOMAIN dict THEN dict[words[i]] ELSE RInt(0)]

\* lines 21-28: custom_scores holds the lexicon value of every matched word
RECURSIVE custom_scores(_, _)
custom_scores(words, dict) ==
    IF words = <<>> THEN <<>>
    ELSE (IF Head(words) \in DOMAIN dict THEN <<dict[Head(words)]>> ELSE <<>>)
         \o custom_scores(Tail(words), dict)

\* lines 21-28: word_weights holds one weight per word, matched or not
word_weights(words, dict) ==
    [i \in 1..Len(words) |->
        IF words[i] \in DOMAIN dict
        THEN RAdd(RInt(1), RMul(RAbs(RSub(dict[words[i]], Rat(1, 2))), RInt(2)))
        ELSE RInt(1)]

\* lines 32-33: sum(score * weight for score, weight in zip(custom_scores, word_weights))
weighted_custom_score(cs, ww) ==
    RSum([i \in 1..(IF Len(cs) < Len(ww) THEN Len(cs) ELSE Len(ww)) |-> RMul(cs[i], ww[i])])

\* adjusted_score with the halving of line 35 lost
adjusted_score_unhalved(sentiment_score, cs, ww) ==
    IF cs # <<>>
    THEN RAdd(sentiment_score, RDiv(weighted_custom_score(cs, ww), RSum(ww)))
    ELSE sentiment_score

\* lines 31-37
adjusted_score(sentiment_score, cs, ww) ==
    IF cs # <<>>
    THEN RDiv(RAdd(sentiment_score, RDiv(weighted_custom_score(cs, ww), RSum(ww))), RInt(2))
    ELSE sentiment_score

\* lines 40-53
confidence_factors(sentiment_score, words, cs, adjusted) ==
    [ polarity    |-> RMul(RAbs(RSub(adjusted, Rat(1, 2))), RInt(2)),
      dictionary  |-> IF words # <<>> THEN Rat(Len(cs), Len(words)) ELSE RInt(0),
      length      |-> RMin(Rat(Len(words), 20), RInt(1)),
      consistency |-> IF cs = <<>> THEN RInt(1)
                      ELSE RSub(RInt(1),
                                RDiv(RAbs(RSub(sentiment_score,
                                               RDiv(RSum(cs), RInt(Len(cs))))),
                                     RInt(2))) ]

\* lines 56-61
confidence_score(f) ==
    LET blended == RAdd(RAdd(RMul(f.polarity, Rat(4, 10)), RMul(f.dictionary, Rat(3, 10))),
                        RAdd(RMul(f.length, Rat(1, 10)), RMul(f.consistency, Rat(2, 10))))
    IN  RMax(Rat(3, 10), RMin(blended, RInt(1)))

\* classify with >= and <= in place of the strict comparisons of lines 64 and 66
classify_inclusive(adjusted, thr, confidence) ==
    IF RLe(thr.positive, adjusted)
    THEN [category |-> "positive", confidence |-> confidence]
    ELSE IF RLe(adjusted, thr.negative)
    THEN [category |-> "negative", confidence |-> confidence]
    ELSE [category |-> "neutral", confidence |-> RMul(confidence, Rat(9, 10))]

\* lines 64-71: the category, and the confidence after the neutral discount
classify(adjusted, thr, confidence) ==
    IF RLt(thr.positive, adjusted)
    THEN [category |-> "positive", confidence |-> confidence]
    ELSE IF RLt(adjusted, thr.negative)
    THEN [category |-> "negative", confidence |-> confidence]
    ELSE [category |-> "neutral", confidence |-> RMul(confidence, Rat(9, 10))]

analyze_try(text, dict_set, dict, thr_set, thr) ==
    IF text.fault = "sentiments" THEN Raise("sentiments failed")
    ELSE IF text.fault = "words" THEN Raise("words failed")
    ELSE IF text.words # <<>> /\ ~dict_set THEN Raise("no attribute custom_dict")
    ELSE IF \E i \in 1..Len(text.words) :
                text.words[i] \in DOMAIN dict /\ ~IsNumber(dict[text.words[i]])
    THEN Raise("unsupported operand")
    ELSE
        LET cs == custom_scores(text.words, dict)
            ww == word_weights(text.words, dict)
            adjusted == adjusted_score(text.sentiments, cs, ww)
            factors == confidence_factors(text.sentiments, text.words, cs, adjusted)
            confidence == confidence_score(factors)
        IN  IF ~thr_set THEN Raise("no attribute thresholds")
            ELSE IF "positive" \notin DOMAIN thr THEN Raise("KeyError positive")
            ELSE IF ~RLt(thr.positive, adjusted)
                    /\ "negative" \notin DOMAIN thr
            THEN Raise("KeyError negative")
            ELSE IF text.fault = "keywords" THEN Raise("keywords failed")
            ELSE LET c == classify(adjusted, thr, confidence)
                 IN  Return([ status |-> "success",
                              adjusted_score |-> adjusted,
                              category |-> c.category,
                              confidence |-> c.confidence,
                              confidence_factors |-> factors ])

\* a handler that logs and re-raises, as the tuner's handlers do
analyze_reraise(o) == o

\* lines 88-93: except Exception returns a failure result with str(e)
analyze_except(o) ==
    IF o.raised
    THEN Return([status |-> "failure", error_message |-> o.error])
    ELSE o

analyze(text, dict_set, dict, thr_set, thr) ==
    analyze_except(analyze_try(text, dict_set, dict, thr_set, thr))

Pending == [raised |-> FALSE, value |-> [status |-> "pending"]]

\* ModelTuner.__init__, lines 32-40, with no artifact persisted yet
InitTuner ==
    /\ custom_dict = <<>>
    /\ thresholds = [positive |-> Rat(7, 10), negative |-> Rat(3, 10)]
    /\ cur_custom_dict = NoFile
    /\ ts_custom_dict = NoFile
    /\ cur_thresholds = NoFile
    /\ ts_thresholds = NoFile
    /\ tn_call = [op |-> "__init__", samples |-> <<>>]
    /\ tn_raised = FALSE
    /\ validation_metrics = <<>>

\* an analyzer that has not been given a snapshot and has not been called
IdleAnalyzer ==
    /\ an_dict_set = FALSE
    /\ an_custom_dict = <<>>
    /\ an_thr_set = FALSE
    /\ an_thresholds = <<>>
    /\ an_text = [words |-> <<>>, sentiments |-> Rat(1, 2), fault |-> "none"]
    /\ an_outcome = Pending

\* TuningManager.__init__, lines 35-40, with no file written yet
IdleManager ==
    /\ training_data = None
    /\ gen_call = [op |-> "__init__", count |-> 0, data |-> <<>>, raised |-> FALSE,
                   completed |-> FALSE]
    /\ cur_training_data = NoFile
    /\ ts_training_data = NoFile
    /\ eval_report = NoFile
    /\ mg_call = [op |-> "__init__", stages |-> <<>>]
    /\ mg_raised = FALSE

\* SentimentApp before load_model_info, lines 44-50 (model_info is set to its
\* defaults on every load), with none of the files it reads present
IdleApp ==
    /\ models_custom_dict = NoFile
    /\ models_thresholds = NoFile
    /\ latest_metrics = NoFile
    /\ model_info = [dictionary_size |-> 0, threshold_info |-> <<>>, evaluation_metrics |-> <<>>]
    /\ app_call = "__init__"

InitAnalyze ==
    /\ InitTuner
    /\ IdleManager
    /\ IdleApp
    /\ an_dict_set \in BOOLEAN
    /\ an_custom_dict \in Lexicons
    /\ ~an_dict_set => an_custom_dict = <<>>
    /\ an_thr_set \in BOOLEAN
    /\ an_thresholds \in ThresholdMaps
    /\ ~an_thr_set => an_thresholds = <<>>
    /\ an_text \in Texts
    /\ an_outcome = Pending

Analyze ==
    /\ an_outcome = Pending
    /\ an_outcome' = analyze(an_text, an_dict_set, an_custom_dict, an_thr_set, an_thresholds)
    /\ UNCHANGED <<an_dict_set, an_custom_dict, an_thr_set, an_thresholds, an_text>>
    /\ UNCHANGED <<tuner_vars, manager_vars, app_vars>>

NextAnalyze == Analyze

SpecAnalyze == InitAnalyze /\ [][NextAnalyze]_vars

(***************************************************************************)
(* The calls on the tuner.  fault: the primitive fails on one of the texts *)
(* while the call collects its observations or raw scores.  tn_call keeps  *)
(* the samples of a call that returned; a call that raised leaves <<>>.    *)
(* The state after a failed collection does not depend on the texts, so a  *)
(* failing primitive is tried on the one-text lists only.                  *)
(***************************************************************************)
TunerInputs == {in \in [samples : SampleLists, fault : BOOLEAN] :
                    in.fault => Len(in.samples) = 1}

\* ModelTuner.optimize_thresholds, lines 84-124
OptimizeThresholds(samples, fault) ==
    /\ IF fault \/ samples = <<>>
       THEN \* line 90 raises, or line 144 divides by zero: except logs and re-raises
            /\ tn_raised' = TRUE
            /\ tn_call' = [op |-> "optimize_thresholds", samples |-> <<>>]
            /\ UNCHANGED <<thresholds, cur_thresholds, ts_thresholds>>
       ELSE /\ tn_raised' = FALSE
            /\ tn_call' = [op |-> "optimize_thresholds", samples |-> samples]
            /\ thresholds' = best_thresholds(samples, thresholds)
            /\ ts_thresholds' = File(thresholds')
            /\ cur_thresholds' = File(thresholds')
    /\ UNCHANGED <<custom_dict, cur_custom_dict, ts_custom_dict>>
    /\ UNCHANGED <<validation_metrics, analyzer_vars, manager_vars, app_vars>>

NextOptimize == \E in \in TunerInputs : OptimizeThresholds(in.samples, in.fault)

InitOptimize == InitTuner /\ IdleAnalyzer /\ IdleManager /\ IdleApp

SpecOptimize == InitOptimize /\ [][NextOptimize]_vars

\* a build that assigns the entries of the words seen before the primitive fails
BuildCustomDictEagerly(samples, fault) ==
    /\ IF fault
       THEN /\ tn_raised' = TRUE
            /\ tn_call' = [op |-> "build_custom_dict", samples |-> <<>>]
            /\ custom_dict' = built_dict(custom_dict, samples)
            /\ UNCHANGED <<cur_custom_dict, ts_custom_dict>>
       ELSE /\ tn_raised' = FALSE
            /\ tn_call' = [op |-> "build_custom_dict", samples |-> samples]
            /\ custom_dict' = built_dict(custom_dict, samples)
            /\ ts_custom_dict' = File(custom_dict')
            /\ cur_custom_dict' = File(custom_dict')
    /\ UNCHANGED <<thresholds, cur_thresholds, ts_thresholds>>
    /\ UNCHANGED <<validation_metrics, analyzer_vars, manager_vars, app_vars>>

\* ModelTuner.build_custom_dict, lines 56-82, with _save_dict, lines 203-220
BuildCustomDict(samples, fault) ==
    /\ IF fault
       THEN \* line 64 raises: except logs and re-raises
            /\ tn_raised' = TRUE
            /\ tn_call' = [op |-> "build_custom_dict", samples |-> <<>>]
            /\ UNCHANGED <<custom_dict, cur_custom_dict, ts_custom_dict>>
       ELSE /\ tn_raised' = FALSE
            /\ tn_call' = [op |-> "build_custom_dict", samples |-> samples]
            /\ custom_dict' = built_dict(custom_dict, samples)
            /\ ts_custom_dict' = File(custom_dict')
            /\ cur_custom_dict' = File(custom_dict')
    /\ UNCHANGED <<thresholds, cur_thresholds, ts_thresholds>>
    /\ UNCHANGED <<validation_metrics, analyzer_vars, manager_vars, app_vars>>

NextDict == \E in \in TunerInputs : BuildCustomDict(in.samples, in.fault)

InitDict == InitTuner /\ IdleAnalyzer /\ IdleManager /\ IdleApp

SpecDict == InitDict /\ [][NextDict]_vars

\* one tuner on which both operations are called, in any order, on at most one sample
PersistInputs == {in \in TunerInputs : Len(in.samples) <= 1}

NextPersist ==
    \/ \E in \in PersistInputs : BuildCustomDict(in.samples, in.fault)
    \/ \E in \in PersistInputs : OptimizeThresholds(in.samples, in.fault)

InitPersist == InitTuner /\ IdleAnalyzer /\ IdleManager /\ IdleApp

SpecPersist == InitPersist /\ [][NextPersist]_vars

(***************************************************************************)
(* ModelTuner.evaluate, lines 146-181, and _calculate_metrics, 183-201.    *)
(***************************************************************************)
\* one text of low and one of high confidence, with the labels of the corpus
EvalTexts ==
    {[words |-> <<"t2">>, sentiments |-> Rat(31, 100)],
     [words |-> <<"t1">>, sentiments |-> Rat(95, 100)]}

EvalSamples == [text : EvalTexts, sentiment : Labels]

EvalSampleLists == UNION {[1..k -> EvalSamples] : k \in 0..MaxSamples}

\* line 167
confidence(score) == RMul(RAbs(RSub(score, Rat(1, 2))), RInt(2))

\* a division as Python does it: ZeroDivisionError when the divisor is 0
Divide(a, b) == IF b = RInt(0) THEN Raise("division by zero") ELSE Return(RDiv(a, b))

\* _calculate_metrics, lines 183-201: the three divisions by total, and the fourth
\* inside a conditional expression on any(c > 0.8)
_calculate_metrics(predictions, true_values, confidence_scores) ==
    LET total == Len(predictions)
        errors == [k \in 1..total |-> RAbs(RSub(predictions[k], true_values[k]))]
        hits == {k \in 1..total : RLt(errors[k], Rat(3, 10))}
        high == {k \in 1..total : RLt(Rat(8, 10), confidence_scores[k])}
        accuracy == Divide(RInt(Cardinality(hits)), RInt(total))
        high_confidence_accuracy ==
            IF high # {}
            THEN Divide(RInt(Cardinality(hits \cap high)), RInt(Cardinality(high)))
            ELSE Return(RInt(0))
    IN  IF accuracy.raised THEN accuracy
        ELSE IF high_confidence_accuracy.raised THEN high_confidence_accuracy
        ELSE Return([accuracy |-> accuracy.value,
                     average_error |-> RDiv(RSum(errors), RInt(total)),
                     average_confidence |-> RDiv(RSum(confidence_scores), RInt(total)),
                     high_confidence_accuracy |-> high_confidence_accuracy.value])

\* the try block of evaluate, lines 149-177; fault: the primitive raises at line 154
evaluate(samples, thr, fault) ==
    IF fault /\ samples # <<>> THEN Raise("sentiments")
    ELSE _calculate_metrics(
             [k \in 1..Len(samples) |->
                 pred_sentiment(samples[k].text.sentiments, thr.positive, thr.negative)],
             [k \in 1..Len(samples) |-> samples[k].sentiment],
             [k \in 1..Len(samples) |-> confidence(samples[k].text.sentiments)])

EvalInputs ==
    {in \in [samples : EvalSampleLists, fault : BOOLEAN] : in.fault => Len(in.samples) = 1}

\* an evaluate that also writes the thresholds it used to thresholds.json
EvaluateAndSave(samples, fault) ==
    LET metrics == evaluate(samples, thresholds, fault)
    IN  /\ tn_call' = [op |-> "evaluate", samples |-> samples, fault |-> fault,
                       repeated |-> (tn_call = [op |-> "evaluate", samples |-> samples,
                                                fault |-> fault, repeated |-> FALSE])]
        /\ tn_raised' = metrics.raised
        /\ validation_metrics' = IF metrics.raised THEN validation_metrics ELSE metrics.value
        /\ cur_thresholds' = File(thresholds)
        /\ UNCHANGED <<custom_dict, thresholds, cur_custom_dict, ts_custom_dict, ts_thresholds>>
        /\ UNCHANGED <<analyzer_vars, manager_vars, app_vars>>

\* ModelTuner.evaluate, lines 146-181: line 174 is its only assignment; except logs
\* and re-raises.  repeated: the call before it was the same call.
Evaluate(samples, fault) ==
    LET metrics == evaluate(samples, thresholds, fault)
    IN  /\ tn_call' = [op |-> "evaluate", samples |-> samples, fault |-> fault,
                       repeated |-> (tn_call = [op |-> "evaluate", samples |-> samples,
                                                fault |-> fault, repeated |-> FALSE])]
        /\ tn_raised' = metrics.raised
        /\ validation_metrics' = IF metrics.raised THEN validation_metrics ELSE metrics.value
        /\ UNCHANGED <<custom_dict, thresholds, cur_custom_dict, ts_custom_dict,
                       cur_thresholds, ts_thresholds>>
        /\ UNCHANGED <<analyzer_vars, manager_vars, app_vars>>

\* the training sets that give the evaluated tuner its thresholds
EvalTraining ==
    {<<[text |-> [words |-> <<"t1", "t1", "t1">>, sentiments |-> Rat(65, 100)],
        sentiment |-> Rat(9, 10)]>>,
     <<[text |-> [words |-> <<"t2">>, sentiments |-> Rat(31, 100)],
        sentiment |-> Rat(1, 10)]>>}

\* a new tuner is given thresholds by optimize_thresholds, or keeps those of
\* __init__; it is evaluated, and evaluated once more on the same samples
NextEvaluate ==
    \/ /\ tn_call.op = "__init__"
       /\ \E samples \in EvalTraining : OptimizeThresholds(samples, FALSE)
    \/ /\ tn_call.op # "evaluate"
       /\ \E in \in EvalInputs : Evaluate(in.samples, in.fault)
    \/ /\ tn_call.op = "evaluate"
       /\ ~tn_call.repeated
       /\ Evaluate(tn_call.samples, tn_call.fault)

InitEvaluate == InitTuner /\ IdleAnalyzer /\ IdleManager /\ IdleApp

SpecEvaluate == InitEvaluate /\ [][NextEvaluate]_vars

(***************************************************************************)
(* TrainingDataGenerator.generate_data and TuningManager's                 *)
(* generate_training_data.  A text is the sequence of the parts that       *)
(* generate_text concatenates.  The random draws of a call are its inputs: *)
(* one uniform draw per sample, the coin of the sarcastic subject, the     *)
(* coin of generate_text, and the order df.sample(frac=1) gives.           *)
(***************************************************************************)
ClassOrder == <<"positive", "negative", "sarcastic", "neutral">>

\* one template of each bank and one subject stand for random.choice over the banks
Template == [positive |-> "positive_template", negative |-> "negative_template",
             sarcastic |-> "sarcastic_template", neutral |-> "neutral_template"]
Subject == "subject"

\* the arguments of random.uniform, lines 160, 171, 182, 193
sentiment_range ==
    [positive  |-> [lo |-> Rat(7, 10), hi |-> RInt(1)],
     negative  |-> [lo |-> RInt(0),    hi |-> Rat(3, 10)],
     sarcastic |-> [lo |-> Rat(1, 10), hi |-> Rat(4, 10)],
     neutral   |-> [lo |-> Rat(3, 10), hi |-> Rat(7, 10)]]

\* random.uniform(a, b) is a + (b - a) * random(), with random() = u
uniform(a, b, u) == RAdd(a, RMul(RSub(b, a), u))
UniformDraws == {RInt(0), Rat(999, 1000)}

\* round(x, 2) for x >= 0: the nearest multiple of 0.01
round2(x) == Rat((200 * x[1] + x[2]) \div (2 * x[2]), 100)

\* generate_text, lines 139-145
generate_text(template, subject, add_subject, template_first) ==
    IF ~add_subject \/ subject = "" THEN <<template>>
    ELSE IF template_first THEN <<template, "!", subject>>
    ELSE <<subject, template>>

\* the list data after the four loops, lines 154-195: the sarcastic loop draws a
\* subject only when its coin says so
data(count, us, sarcastic_subject, template_first) ==
    [i \in 1..(4 * count) |->
        LET type == ClassOrder[((i - 1) \div count) + 1]
            subject == IF type = "sarcastic" /\ ~sarcastic_subject THEN "" ELSE Subject
        IN  [text |-> generate_text(Template[type], subject, subject # "", template_first),
             sentiment |-> round2(uniform(sentiment_range[type].lo,
                                          sentiment_range[type].hi, us[i])),
             type |-> type]]

\* the orders tried for df.sample(frac=1): the rotations of 1..n and their reversals
Shuffles(n) ==
    {[i \in 1..n |-> ((i + k - 1) % n) + 1] : k \in 0..(n - 1)}
    \cup {[i \in 1..n |-> ((2 * n - i + k) % n) + 1] : k \in 0..(n - 1)}

\* a sample with replacement: every row of the result is the row p[1]
sampled_with_replacement(rows, p) == [i \in 1..Len(rows) |-> rows[p[1]]]

\* df.sample(frac=1).reset_index(drop=True), line 199
shuffled(rows, p) == [i \in 1..Len(rows) |-> rows[p[i]]]

GeneratorInputs ==
    UNION {[count : {count}, us : [1..(4 * count) -> UniformDraws],
            sarcastic_subject : BOOLEAN, template_first : BOOLEAN,
            p : Shuffles(4 * count)] : count \in 1..MaxCount}

GeneratorFaults == {"none", "generate_data", "to_csv"}

\* What generate_training_data, lines 42-66, does with generate_data, lines 147-218.
\* fault names the write that fails: one of generate_data's own (it raises and
\* nothing is assigned), or the manager's to_csv of line 53, after the assignment
\* of line 48 and after generate_data has written its two files.
Generates(in, fault) ==
    LET rows == data(in.count, in.us, in.sarcastic_subject, in.template_first)
        df == shuffled(rows, in.p)
    IN  /\ gen_call' = [op |-> "generate_data", count |-> in.count, data |-> rows,
                        raised |-> (fault = "generate_data"),
                        completed |-> (fault = "none")]
        /\ IF fault = "generate_data"
           THEN UNCHANGED <<cur_training_data, ts_training_data>>
           ELSE /\ ts_training_data' = File(df)
                /\ cur_training_data' = File(df)

\* TuningManager.generate_training_data, lines 42-66
GenerateTrainingData(in, fault) ==
    /\ Generates(in, fault)
    /\ training_data' =
           IF fault = "generate_data" THEN training_data
           ELSE Some(shuffled(data(in.count, in.us, in.sarcastic_subject, in.template_first),
                              in.p))
    /\ mg_call' = [op |-> "generate_training_data", stages |-> <<>>]
    /\ mg_raised' = (fault # "none")
    /\ UNCHANGED <<eval_report, tuner_vars, analyzer_vars, app_vars>>

\* one call on a manager that has just been constructed
NextGenerate ==
    /\ mg_call.op = "__init__"
    /\ \E in \in GeneratorInputs, fault \in GeneratorFaults : GenerateTrainingData(in, fault)

InitGenerate == InitTuner /\ IdleAnalyzer /\ IdleManager /\ IdleApp

SpecGenerate == InitGenerate /\ [][NextGenerate]_vars

(***************************************************************************)
(* TuningManager.tune_model, lines 83-125, with _save_evaluation_results,  *)
(* lines 127-145.                                                          *)
(***************************************************************************)
\* what the primitive answers for a generated text: the words of its parts, and a
\* raw score that goes with its template
RECURSIVE snow_words(_)
snow_words(text) ==
    IF text = <<>> THEN <<>>
    ELSE (CASE Head(text) = "!" -> <<>>
            [] Head(text) = Template.sarcastic -> <<"t2">>
            [] OTHER -> <<"t1">>)
         \o snow_words(Tail(text))

snow_sentiments(text) ==
    CASE Template.positive \in Range(text) -> Rat(93, 100)
      [] Template.negative \in Range(text) -> Rat(11, 100)
      [] Template.sarcastic \in Range(text) -> Rat(63, 100)
      [] OTHER -> Rat(47, 100)

SnowNLP(text) == [words |-> snow_words(text), sentiments |-> snow_sentiments(text)]

\* train_data['text'].tolist(), train_data['sentiment'].tolist(), as the tuner sees them
samples_of(rows) ==
    [k \in 1..Len(rows) |-> [text |-> SnowNLP(rows[k].text), sentiment |-> rows[k].sentiment]]

\* a split that gives the whole corpus to training
train_size_whole(n) == n

\* int(len(self.training_data) * 0.8), line 92
train_size(n) == (8 * n) \div 10

StageOrder ==
    <<"build_custom_dict", "optimize_thresholds", "evaluate", "_save_evaluation_results">>

\* the stage in which the primitive (or, for the report, the file system) fails
TuneFaults == {"none"} \cup Range(StageOrder)

\* a try block that goes on with its next statement after a call has raised
proceeds_anyway(raised_before) == TRUE

\* lines 85-121 are one try block: the statement after a call runs only when the
\* call has returned
proceeds(raised_before) == ~raised_before

\* the text report of lines 135-139: one line per metric
report(metrics) == [format |-> "text", lines |-> metrics]

\* tune_model on the corpus td (None or a value) and a tuner in the state `tuner`:
\* what was started, in order, with the rows it was given; what raised; the tuner's
\* fields afterwards; which files were written
tune_model(td, tuner, fault) ==
    IF ~td.set
    THEN \* lines 86-87: ValueError, logged and re-raised by lines 123-125
         [raised |-> TRUE, failed |-> "training_data", stages |-> <<>>,
          custom_dict |-> tuner.custom_dict, dict_saved |-> FALSE,
          thresholds |-> tuner.thresholds, thresholds_saved |-> FALSE,
          validation_metrics |-> tuner.validation_metrics, report_saved |-> FALSE]
    ELSE LET n == Len(td.value)
             train_data == SubSeq(td.value, 1, train_size(n))
             test_data == SubSeq(td.value, train_size(n) + 1, n)
             train == samples_of(train_data)
             test == samples_of(test_data)
             \* lines 98-101
             build_raised == fault = "build_custom_dict"
             \* lines 105-108; an empty training set raises ZeroDivisionError, and
             \* the log of model_tuning.py lines 115-117 reads both keys of the result
             runs_optimize == proceeds(build_raised)
             searched_thresholds == best_thresholds(train, tuner.thresholds)
             optimize_raised ==
                 runs_optimize /\ (\/ fault = "optimize_thresholds"
                                   \/ train = <<>>
                                   \/ ~({"positive", "negative"} \subseteq
                                           DOMAIN searched_thresholds))
             thresholds_then ==
                 IF runs_optimize /\ ~optimize_raised THEN searched_thresholds
                 ELSE tuner.thresholds
             \* lines 112-115
             runs_evaluate == runs_optimize /\ proceeds(optimize_raised)
             metrics == evaluate(test, thresholds_then, fault = "evaluate")
             evaluate_raised == runs_evaluate /\ metrics.raised
             \* line 121
             runs_save == runs_evaluate /\ proceeds(evaluate_raised)
             save_raised == runs_save /\ fault = "_save_evaluation_results"
         IN  [raised |-> build_raised \/ optimize_raised \/ evaluate_raised \/ save_raised,
              failed |-> IF build_raised THEN "build_custom_dict"
                         ELSE IF optimize_raised THEN "optimize_thresholds"
                         ELSE IF evaluate_raised THEN "evaluate"
                         ELSE IF save_raised THEN "_save_evaluation_results"
                         ELSE "none",
              stages |-> <<[stage |-> "build_custom_dict", rows |-> train_data]>>
                         \o (IF runs_optimize
                             THEN <<[stage |-> "optimize_thresholds", rows |-> train_data]>>
                             ELSE <<>>)
                         \o (IF runs_evaluate
                             THEN <<[stage |-> "evaluate", rows |-> test_data]>>
                             ELSE <<>>)
                         \o (IF runs_save
                             THEN <<[stage |-> "_save_evaluation_results", rows |-> <<>>]>>
                             ELSE <<>>),
              custom_dict |-> IF build_raised THEN tuner.custom_dict
                              ELSE built_dict(tuner.custom_dict, train),
              dict_saved |-> ~build_raised,
              thresholds |-> thresholds_then,
              thresholds_saved |-> runs_optimize /\ ~optimize_raised,
              validation_metrics |-> IF runs_evaluate /\ ~evaluate_raised
                                     THEN metrics.value ELSE tuner.validation_metrics,
              report_saved |-> runs_save /\ ~save_raised]

\* the tuner of the manager, as tune_model finds it
Tuner ==
    [custom_dict |-> custom_dict, thresholds |-> thresholds,
     validation_metrics |-> validation_metrics]

\* ModelTuner.__init__, lines 32-44
NewTuner ==
    [custom_dict |-> <<>>, thresholds |-> [positive |-> Rat(7, 10), negative |-> Rat(3, 10)],
     validation_metrics |-> <<>>]

\* the effect of a tune_model whose outcome is run: the tuner's fields, the files
\* _save_dict, _save_thresholds and _save_evaluation_results wrote, the last call
\* on the tuner
Tunes(run) ==
    /\ mg_call' = [op |-> "tune_model", stages |-> run.stages, failed |-> run.failed]
    /\ mg_raised' = run.raised
    /\ custom_dict' = run.custom_dict
    /\ thresholds' = run.thresholds
    /\ validation_metrics' = run.validation_metrics
    /\ IF run.dict_saved
       THEN /\ ts_custom_dict' = File(run.custom_dict)
            /\ cur_custom_dict' = File(run.custom_dict)
       ELSE UNCHANGED <<ts_custom_dict, cur_custom_dict>>
    /\ IF run.thresholds_saved
       THEN /\ ts_thresholds' = File(run.thresholds)
            /\ cur_thresholds' = File(run.thresholds)
       ELSE UNCHANGED <<ts_thresholds, cur_thresholds>>
    /\ eval_report' = IF run.report_saved THEN File(report(run.validation_metrics))
                      ELSE eval_report
    /\ IF run.stages = <<>>
       THEN UNCHANGED <<tn_call, tn_raised>>
       ELSE LET last == IF run.stages[Len(run.stages)].stage = "_save_evaluation_results"
                        THEN run.stages[Len(run.stages) - 1]
                        ELSE run.stages[Len(run.stages)]
            IN  /\ tn_call' = [op |-> last.stage, samples |-> samples_of(last.rows)]
                /\ tn_raised' = (run.failed = last.stage)

\* TuningManager.tune_model, lines 83-125
TuneModel(fault) ==
    /\ LET run == tune_model(training_data, Tuner, fault) IN Tunes(run)
    /\ UNCHANGED <<training_data, gen_call, cur_training_data, ts_training_data>>
    /\ UNCHANGED <<analyzer_vars, app_vars>>

\* the draws of the generator tried before a tuning: the same uniform draw for
\* every sample of the corpus, the template before the subject
TuningInputs ==
    {in \in GeneratorInputs : in.template_first /\ \A i \in DOMAIN in.us : in.us[i] = in.us[1]}

\* a manager generates at most once, as its first call, and tunes at most once
NextTune ==
    \/ /\ mg_call.op = "__init__"
       /\ \E in \in TuningInputs, fault \in GeneratorFaults : GenerateTrainingData(in, fault)
    \/ /\ mg_call.op # "tune_model"
       /\ \E fault \in TuneFaults : TuneModel(fault)

InitTune == InitTuner /\ IdleAnalyzer /\ IdleManager /\ IdleApp

SpecTune == InitTune /\ [][NextTune]_vars

(***************************************************************************)
(* SentimentApp: load_model_info, lines 42-72, run_optimization, lines     *)
(* 264-283, and the analyze call of run, line 145.                         *)
(***************************************************************************)
\* the snapshot the engine of the application holds
Snapshot ==
    [dict_set |-> an_dict_set, custom_dict |-> an_custom_dict,
     thr_set |-> an_thr_set, thresholds |-> an_thresholds]

\* an engine without a snapshot, and one with a lexicon and thresholds
AppSnapshots ==
    {[dict_set |-> FALSE, custom_dict |-> <<>>, thr_set |-> FALSE, thresholds |-> <<>>],
     [dict_set |-> TRUE, custom_dict |-> [w \in {"t1"} |-> Rat(9, 10)],
      thr_set |-> TRUE, thresholds |-> [positive |-> Rat(7, 10), negative |-> Rat(3, 10)]]}

AppTexts ==
    {[words |-> <<"t1", "t2">>, sentiments |-> Rat(7, 10), fault |-> "none"],
     [words |-> <<>>, sentiments |-> Rat(1, 2), fault |-> "none"]}

\* load_model_info, lines 44-69: the defaults, replaced by what the three files hold
load_model_info(dict_file, thresholds_file, metrics_file) ==
    [dictionary_size |-> IF dict_file.exists THEN Cardinality(DOMAIN dict_file.content) ELSE 0,
     threshold_info |-> IF thresholds_file.exists THEN thresholds_file.content ELSE <<>>,
     evaluation_metrics |-> IF metrics_file.exists THEN metrics_file.content ELSE <<>>]

\* an engine that takes the lexicon and thresholds just persisted
snapshot_reloaded(snapshot, dict_file, thresholds_file) ==
    [dict_set |-> dict_file.exists,
     custom_dict |-> IF dict_file.exists THEN dict_file.content ELSE <<>>,
     thr_set |-> thresholds_file.exists,
     thresholds |-> IF thresholds_file.exists THEN thresholds_file.content ELSE <<>>]

\* run_optimization has no statement on self.analyzer: the engine keeps its snapshot
snapshot_kept(snapshot, dict_file, thresholds_file) == snapshot

\* the runs tried: the sarcastic texts without a subject, the corpus rotated
RunInputs ==
    {r \in [in : {in \in TuningInputs : /\ ~in.sarcastic_subject
                                        /\ in.p[2] = (in.p[1] % (4 * in.count)) + 1},
            generate_fault : GeneratorFaults, tune_fault : TuneFaults] :
        r.generate_fault # "none" => r.tune_fault = "none"}

\* run_optimization, lines 264-283: a new TuningManager (with a new ModelTuner),
\* generate_training_data, tune_model, load_model_info; an exception of any of them
\* ends the block and is shown, not raised
RunOptimization(in, generate_fault, tune_fault) ==
    LET df == shuffled(data(in.count, in.us, in.sarcastic_subject, in.template_first), in.p)
        run == tune_model(Some(df), NewTuner, tune_fault)
    IN  /\ IF generate_fault = "none"
           THEN Tunes(run)
           ELSE /\ mg_call' = [op |-> "generate_training_data", stages |-> <<>>]
                /\ mg_raised' = TRUE
                /\ custom_dict' = NewTuner.custom_dict
                /\ thresholds' = NewTuner.thresholds
                /\ validation_metrics' = NewTuner.validation_metrics
                /\ tn_call' = [op |-> "__init__", samples |-> <<>>]
                /\ tn_raised' = FALSE
                /\ UNCHANGED <<cur_custom_dict, ts_custom_dict, cur_thresholds, ts_thresholds,
                               eval_report>>
        /\ app_call' = "run_optimization"
        /\ Generates(in, generate_fault)
        /\ training_data' = IF generate_fault = "generate_data" THEN None ELSE Some(df)
        /\ model_info' =
               IF ~mg_raised'
               THEN load_model_info(models_custom_dict, models_thresholds, latest_metrics)
               ELSE model_info
        /\ LET after == snapshot_kept(Snapshot, cur_custom_dict', cur_thresholds')
           IN  /\ an_dict_set' = after.dict_set
               /\ an_custom_dict' = after.custom_dict
               /\ an_thr_set' = after.thr_set
               /\ an_thresholds' = after.thresholds
        /\ UNCHANGED <<models_custom_dict, models_thresholds, latest_metrics, an_text, an_outcome>>

\* SentimentApp.run, line 145: self.analyzer.analyze(user_input)
AppAnalyze(text) ==
    /\ app_call' = "analyze"
    /\ an_text' = text
    /\ an_outcome' = analyze(text, an_dict_set, an_custom_dict, an_thr_set, an_thresholds)
    /\ UNCHANGED <<an_dict_set, an_custom_dict, an_thr_set, an_thresholds>>
    /\ UNCHANGED <<models_custom_dict, models_thresholds, latest_metrics, model_info>>
    /\ UNCHANGED <<tuner_vars, manager_vars>>

\* the optimization is run at most once, as the first thing the application does
NextApp ==
    \/ /\ app_call = "__init__"
       /\ \E r \in RunInputs : RunOptimization(r.in, r.generate_fault, r.tune_fault)
    \/ \E text \in AppTexts : AppAnalyze(text)

\* SentimentApp.__init__, lines 36-40, with none of the files of load_model_info
InitApp ==
    /\ InitTuner
    /\ IdleManager
    /\ IdleApp
    /\ \E snapshot \in AppSnapshots :
           /\ an_dict_set = snapshot.dict_set
           /\ an_custom_dict = snapshot.custom_dict
           /\ an_thr_set = snapshot.thr_set
           /\ an_thresholds = snapshot.thresholds
    /\ an_text = [words |-> <<>>, sentiments |-> Rat(1, 2), fault |-> "none"]
    /\ an_outcome = Pending

SpecApp == InitApp /\ [][NextApp]_vars

(***************************************************************************)
(* Properties of analyze, checked under SpecAnalyze.                       *)
(***************************************************************************)
Succeeded == ~an_outcome.raised /\ an_outcome.value.status = "success"
Result == an_outcome.value

InUnit(x) == IsNumber(x) /\ RLe(RInt(0), x) /\ RLe(x, RInt(1))

Matched == {i \in 1..Len(an_text.words) : an_text.words[i] \in DOMAIN an_custom_dict}

\* C1: every success result reports a confidence in [0.3, 1.0], neutral results
\* included.
C1_ConfidenceBound ==
    Succeeded => RLe(Rat(3, 10), Result.confidence) /\ RLe(Result.confidence, RInt(1))

\* C2: analyze never raises to its caller: whatever fails inside (the primitive's
\* sentiments, words or keywords, a missing or malformed snapshot), the caller gets
\* a success result, or a failure result carrying the message of the error.
C2_NeverRaises ==
    an_outcome # Pending =>
        /\ ~an_outcome.raised
        /\ Result.status \in {"success", "failure"}
        /\ LET tried == analyze_try(an_text, an_dict_set, an_custom_dict,
                                    an_thr_set, an_thresholds)
           IN  /\ Result.status = "success" <=> ~tried.raised
               /\ Result.status = "failure" => Result.error_message = tried.error

\* a call on an analyzer without thresholds, with a sound primitive, has ended in a
\* failure result
C2_Witness ==
    /\ an_outcome # Pending
    /\ ~an_outcome.raised
    /\ Result.status = "failure"
    /\ an_text.fault = "none"
    /\ ~an_thr_set

\* the weighted average of the matched lexicon values, each weighted by its own
\* weight 1 + 2 * |v - 0.5| and normalised by the matched weights only
OwnWeight(v) == RAdd(RInt(1), RMul(RInt(2), RAbs(RSub(v, Rat(1, 2)))))

MatchedAverage(cs) ==
    RDiv(RSum([i \in 1..Len(cs) |-> RMul(cs[i], OwnWeight(cs[i]))]),
         RSum([i \in 1..Len(cs) |-> OwnWeight(cs[i])]))

\* C7: when at least one token matches the lexicon, adjusted_score is
\* (raw_score + W) / 2 with W the weighted average of the matched values, each by
\* its own weight, normalised by the matched weights only.
C7_MatchedWeightedAverage ==
    (Succeeded /\ Matched # {}) =>
        Result.adjusted_score =
            RDiv(RAdd(an_text.sentiments,
                      MatchedAverage(custom_scores(an_text.words, an_custom_dict))),
                 RInt(2))

\* C8: the category of a success result is positive when adjusted_score exceeds the
\* positive threshold, negative when it is below the negative threshold, neutral in
\* every other case, equality with a threshold included.
C8_CategoryConsistency ==
    Succeeded =>
        /\ RLt(an_thresholds.positive, Result.adjusted_score)
               => Result.category = "positive"
        /\ ~RLt(an_thresholds.positive, Result.adjusted_score) =>
               /\ RLt(Result.adjusted_score, an_thresholds.negative)
                      => Result.category = "negative"
               /\ ~RLt(Result.adjusted_score, an_thresholds.negative)
                      => Result.category = "neutral"

\* a success result whose adjusted score equals the positive threshold
C8_Witness ==
    /\ Succeeded
    /\ Result.adjusted_score = an_thresholds.positive
    /\ Result.category = "neutral"

\* C9: when no token matches the lexicon, adjusted_score is the raw score, the
\* dictionary-coverage factor is 0 and the internal-consistency factor is 1.
C9_NoMatch ==
    (Succeeded /\ Matched = {}) =>
        /\ Result.adjusted_score = an_text.sentiments
        /\ Result.confidence_factors.dictionary = RInt(0)
        /\ Result.confidence_factors.consistency = RInt(1)

\* a success on a text with tokens and a non-empty lexicon, none of them matching
C9_Witness ==
    /\ Succeeded
    /\ Matched = {}
    /\ an_text.words # <<>>
    /\ an_custom_dict # <<>>

\* C10: with all lexicon values in [0,1] (the raw score always is), each of the four
\* confidence factors of a success result lies in [0,1].
C10_FactorsInUnit ==
    (Succeeded /\ \A w \in DOMAIN an_custom_dict : InUnit(an_custom_dict[w])) =>
        /\ InUnit(Result.confidence_factors.polarity)
        /\ InUnit(Result.confidence_factors.dictionary)
        /\ InUnit(Result.confidence_factors.length)
        /\ InUnit(Result.confidence_factors.consistency)

\* a success with matched and unmatched tokens, a lexicon within [0,1], and a raw
\* score that disagrees with the matched values
C10_Witness ==
    /\ Succeeded
    /\ \A w \in DOMAIN an_custom_dict : InUnit(an_custom_dict[w])
    /\ Matched # {}
    /\ Matched # 1..Len(an_text.words)
    /\ RLt(Result.confidence_factors.consistency, RInt(1))
    /\ RLt(RInt(0), Result.confidence_factors.polarity)

(***************************************************************************)
(* Properties of optimize_thresholds, checked under SpecOptimize.          *)
(***************************************************************************)
Optimized == tn_call.op = "optimize_thresholds" /\ ~tn_raised

\* C3: after any sequence of optimize_thresholds calls, the tuner's thresholds and
\* the persisted thresholds satisfy positive > negative.
C3_ThresholdInvariant ==
    /\ RLt(thresholds.negative, thresholds.positive)
    /\ cur_thresholds.exists =>
           RLt(cur_thresholds.content.negative, cur_thresholds.content.positive)
    /\ ts_thresholds.exists =>
           RLt(ts_thresholds.content.negative, ts_thresholds.content.positive)

\* a call has returned with thresholds chosen by the grid search and persisted
C3_Witness ==
    /\ Optimized
    /\ thresholds # [positive |-> Rat(7, 10), negative |-> Rat(3, 10)]
    /\ cur_thresholds = File(thresholds)

\* the valid cells of the grid, by their indices, and the accuracy of a cell
ValidCells ==
    {c \in (1..Len(pos_range)) \X (1..Len(neg_range)) : RLt(neg_range[c[2]], pos_range[c[1]])}

CellAccuracy(c, samples) == _calculate_accuracy(samples, pos_range[c[1]], neg_range[c[2]])

Precedes(c, d) == c[1] < d[1] \/ (c[1] = d[1] /\ c[2] < d[2])

\* the first cell, in iteration order, of maximal accuracy
FirstMaximum(samples) ==
    LET acc == <<>> @@ [c \in ValidCells |-> CellAccuracy(c, samples)]
        best == {c \in ValidCells : \A d \in ValidCells : RLe(acc[d], acc[c])}
    IN  CHOOSE c \in best : \A d \in best : d = c \/ Precedes(c, d)

\* C4: for a non-empty sample set, optimize_thresholds returns the valid grid pair of
\* maximal accuracy that comes first in iteration order; when all pairs have the
\* same accuracy, that is the first valid pair.
C4_FirstMaximum ==
    (Optimized /\ tn_call.samples # <<>>) =>
        LET c == FirstMaximum(tn_call.samples)
        IN  thresholds = [positive |-> pos_range[c[1]], negative |-> neg_range[c[2]]]

\* C5: when the grid search selects no pair, the operation reports an error; it does
\* not return normally with the previous thresholds kept and persisted.
C5_NoPairIsReported ==
    (tn_call.op = "optimize_thresholds"
     /\ tn_call.samples # <<>>
     /\ searched[tn_call.samples].thresholds = <<>>) => tn_raised

(***************************************************************************)
(* Properties of build_custom_dict, checked under SpecDict.                *)
(***************************************************************************)
Built == tn_call.op = "build_custom_dict" /\ ~tn_raised

TokensIn(samples) ==
    {w \in Tokens : \E k \in 1..Len(samples) :
        \E i \in 1..Len(samples[k].text.words) : samples[k].text.words[i] = w}

\* C6: after a build on at least one sample, the in-memory and the persisted lexicon
\* contain exactly the tokens of the samples of that build, whatever an earlier build
\* on the same tuner was given: no entry of the earlier build is left over.
C6_WholesaleReplace ==
    (Built /\ tn_call.samples # <<>>) =>
        /\ DOMAIN custom_dict = TokensIn(tn_call.samples)
        /\ cur_custom_dict.exists
        /\ DOMAIN cur_custom_dict.content = TokensIn(tn_call.samples)

\* the labels of the samples in which word occurs
LabelsOf(word, samples) ==
    {samples[k].sentiment : k \in {k \in 1..Len(samples) : word \in Range(samples[k].text.words)}}

\* the occurrences of word in the samples: sample k, position i
OccurrencesOf(word, samples) ==
    {ki \in (1..Len(samples)) \X (1..MaxWords + 1) :
        /\ ki[2] <= Len(samples[ki[1]].text.words)
        /\ samples[ki[1]].text.words[ki[2]] = word}

\* C19: after a build, the keys of the lexicon are exactly the tokens that occur in a
\* sample of the build; a token has one observation per occurrence; its value lies
\* between the least and the greatest label observed for it, and is v when every
\* label observed for it is v.
C19_LexiconOfTheSamples ==
    Built =>
        /\ DOMAIN custom_dict = TokensIn(tn_call.samples)
        /\ \A word \in TokensIn(tn_call.samples) :
              /\ Len(observations(word, tn_call.samples))
                     = Cardinality(OccurrencesOf(word, tn_call.samples))
              /\ word \in DOMAIN custom_dict =>
                    /\ \E lo \in LabelsOf(word, tn_call.samples) : RLe(lo, custom_dict[word])
                    /\ \E hi \in LabelsOf(word, tn_call.samples) : RLe(custom_dict[word], hi)
                    /\ \A v \in LabelsOf(word, tn_call.samples) :
                          LabelsOf(word, tn_call.samples) = {v} => custom_dict[word] = v

(***************************************************************************)
(* Properties of generate_data, checked under SpecGenerate.                *)
(***************************************************************************)
Generated == gen_call.op = "generate_data" /\ ~gen_call.raised

Occurrences(rows, row) == Cardinality({i \in 1..Len(rows) : rows[i] = row})

\* the range the corpus contract declares for each class
DeclaredRange ==
    [positive  |-> <<Rat(7, 10), RInt(1)>>,
     negative  |-> <<RInt(0),    Rat(3, 10)>>,
     sarcastic |-> <<Rat(1, 10), Rat(4, 10)>>,
     neutral   |-> <<Rat(3, 10), Rat(7, 10)>>]

\* C11: for a count per class above 0, generate_data returns 4 * count samples, each
\* of the four classes count times, every sentiment within the range of its class,
\* and the returned sequence is a permutation of the generated samples.
C11_CorpusShape ==
    (Generated /\ gen_call.count > 0) =>
        LET df == training_data.value
        IN  /\ Len(df) = 4 * gen_call.count
            /\ \A type \in Range(ClassOrder) :
                   Cardinality({i \in 1..Len(df) : df[i].type = type}) = gen_call.count
            /\ \A i \in 1..Len(df) :
                   /\ RLe(DeclaredRange[df[i].type][1], df[i].sentiment)
                   /\ RLe(df[i].sentiment, DeclaredRange[df[i].type][2])
            /\ \A row \in Range(df) \cup Range(gen_call.data) :
                   Occurrences(df, row) = Occurrences(gen_call.data, row)

\* a corpus has been returned in another order than it was generated in, with a
\* sentiment rounded up to the end of its range
C11_Witness ==
    /\ Generated
    /\ gen_call.count > 0
    /\ training_data.value # gen_call.data
    /\ \E i \in 1..Len(training_data.value) :
           /\ training_data.value[i].type = "positive"
           /\ training_data.value[i].sentiment = RInt(1)

(***************************************************************************)
(* Properties of evaluate, checked under SpecEvaluate.                     *)
(***************************************************************************)
Evaluated == tn_call.op = "evaluate" /\ ~tn_call.fault

NoHighConfidence(samples) ==
    \A k \in 1..Len(samples) :
        RLe(RMul(RAbs(RSub(samples[k].text.sentiments, Rat(1, 2))), RInt(2)), Rat(8, 10))

\* C12: for every sample set in which every sample's confidence |raw - 0.5| * 2 is
\* at most 0.8, evaluate (with a sound primitive) does not raise and returns
\* high_confidence_accuracy = 0.
C12_NoHighConfidenceSubset ==
    (Evaluated /\ NoHighConfidence(tn_call.samples)) =>
        /\ ~tn_raised
        /\ validation_metrics.high_confidence_accuracy = RInt(0)

TunedConfiguration ==
    <<custom_dict, thresholds, cur_custom_dict, ts_custom_dict, cur_thresholds, ts_thresholds>>

\* C13: evaluate never changes the tuner's thresholds or lexicon, in memory or
\* persisted, and an evaluate that follows an evaluate of the same samples on the
\* same tuner returns the same metrics.
C13_EvaluateReadOnly ==
    [][tn_call'.op = "evaluate" =>
          /\ TunedConfiguration' = TunedConfiguration
          /\ (tn_call'.repeated /\ ~tn_raised /\ ~tn_raised')
                 => validation_metrics' = validation_metrics]_vars

\* a second evaluate of the same samples has returned, on a tuner whose thresholds
\* were chosen by optimize_thresholds and persisted
C13_Witness ==
    /\ tn_call.op = "evaluate"
    /\ tn_call.repeated
    /\ ~tn_raised
    /\ tn_call.samples # <<>>
    /\ thresholds # [positive |-> Rat(7, 10), negative |-> Rat(3, 10)]
    /\ cur_thresholds = File(thresholds)

(***************************************************************************)
(* Properties of tune_model, checked under SpecTune.                        *)
(***************************************************************************)
Tuned == mg_call.op = "tune_model"

Started == [k \in 1..Len(mg_call.stages) |-> mg_call.stages[k].stage]

Completed(stage) ==
    /\ \E k \in 1..Len(Started) : Started[k] = stage
    /\ mg_call.failed # stage

\* C14: the stages of a tuning run execute in the order build dictionary, optimize
\* thresholds, evaluate, persist metrics; when a stage fails, no later stage executes
\* and the error reaches the caller of tune_model, and what the completed stages
\* persisted is still persisted.
C14_StagesInOrder ==
    (Tuned /\ training_data.set) =>
        /\ Started = SubSeq(StageOrder, 1, Len(Started))
        /\ Started # <<>>
        /\ mg_call.failed # "none" =>
               /\ mg_raised
               /\ Started[Len(Started)] = mg_call.failed
        /\ mg_call.failed = "none" =>
               /\ ~mg_raised
               /\ Started = StageOrder
        /\ Completed("build_custom_dict") =>
               /\ cur_custom_dict = File(custom_dict)
               /\ ts_custom_dict = File(custom_dict)
        /\ Completed("optimize_thresholds") =>
               /\ cur_thresholds = File(thresholds)
               /\ ts_thresholds = File(thresholds)
        /\ Completed("_save_evaluation_results") =>
               eval_report = File(report(validation_metrics))

\* the evaluation has failed after the dictionary and the thresholds were persisted
C14_Witness ==
    /\ Tuned
    /\ mg_raised
    /\ mg_call.failed = "evaluate"
    /\ cur_custom_dict.exists
    /\ cur_custom_dict.content # <<>>
    /\ cur_thresholds.exists
    /\ ~eval_report.exists

StageRows(stage) ==
    LET k == CHOOSE k \in 1..Len(Started) : Started[k] = stage
    IN  mg_call.stages[k].rows

WordsOf(rows) ==
    {w \in Tokens : \E k \in 1..Len(rows) : w \in Range(snow_words(rows[k].text))}

\* C18: for a corpus of n samples, the train split is the first floor(0.8 * n)
\* samples in their order and the test split the remaining ones, so that the two
\* are disjoint, cover the corpus and keep its order; for n = 4 * count with
\* count > 0 both are non-empty; the dictionary and the thresholds are built from
\* the train split only, and the evaluation uses the test split only.
C18_TrainTestSplit ==
    (Tuned /\ training_data.set) =>
        LET rows == training_data.value
            n == Len(rows)
            train == [i \in 1..((4 * n) \div 5) |-> rows[i]]
            test == [i \in 1..(n - ((4 * n) \div 5)) |-> rows[((4 * n) \div 5) + i]]
        IN  /\ train \o test = rows
            /\ (gen_call.count > 0 /\ n = 4 * gen_call.count) => (train # <<>> /\ test # <<>>)
            /\ \A k \in 1..Len(Started) :
                   /\ Started[k] \in {"build_custom_dict", "optimize_thresholds"}
                          => mg_call.stages[k].rows = train
                   /\ Started[k] = "evaluate" => mg_call.stages[k].rows = test
            /\ Completed("build_custom_dict") => DOMAIN custom_dict = WordsOf(train)

\* a tuning has returned on a corpus of four samples whose last sample, the test
\* split, has a word that no sample of the train split has
C18_Witness ==
    /\ Tuned
    /\ ~mg_raised
    /\ Len(training_data.value) = 4
    /\ Len(StageRows("build_custom_dict")) = 3
    /\ Len(StageRows("evaluate")) = 1
    /\ WordsOf(StageRows("evaluate")) \ DOMAIN custom_dict # {}

\* C20: a tune_model on a manager whose generate_training_data has not returned
\* normally raises before any stage: nothing is built or persisted, and the tuner's
\* lexicon and thresholds are as they were.
C20_NoTuningWithoutCorpus ==
    (Tuned /\ ~gen_call.completed) =>
        /\ mg_raised
        /\ mg_call.stages = <<>>
        /\ custom_dict = <<>>
        /\ thresholds = [positive |-> Rat(7, 10), negative |-> Rat(3, 10)]
        /\ ~cur_custom_dict.exists /\ ~ts_custom_dict.exists
        /\ ~cur_thresholds.exists /\ ~ts_thresholds.exists
        /\ ~eval_report.exists

(***************************************************************************)
(* Properties of run_optimization and load_model_info, checked under       *)
(* SpecApp.                                                                *)
(***************************************************************************)
RunCompleted == mg_call.op = "tune_model" /\ ~mg_raised

\* C15: after a tuning run that completed, the current lexicon and threshold files
\* that load_model_info reads hold the lexicon and the thresholds of that run, and
\* the reload shows them.
C15_ConsumerReadsTuned ==
    RunCompleted =>
        /\ models_custom_dict = File(custom_dict)
        /\ models_thresholds = File(thresholds)
        /\ model_info.dictionary_size = Cardinality(DOMAIN custom_dict)
        /\ model_info.threshold_info = thresholds

\* C16: after a tuning run that completed, the metrics of the run are stored as a
\* timestamped text report and as a machine-readable latest copy, the one the
\* presentation layer loads.
C16_LatestMetrics ==
    RunCompleted =>
        /\ eval_report = File(report(validation_metrics))
        /\ latest_metrics = File(validation_metrics)
        /\ model_info.evaluation_metrics = validation_metrics

\* C17: run_optimization leaves the snapshot of the constructed engine unchanged,
\* and every analyze call answers from that snapshot, whatever the run persisted.
C17_SnapshotUnchanged ==
    [][/\ Snapshot' = Snapshot
       /\ app_call' = "analyze" =>
              an_outcome' = analyze(an_text', an_dict_set, an_custom_dict,
                                    an_thr_set, an_thresholds)]_vars

\* an analyze has succeeded after a run that persisted another lexicon and other
\* thresholds than those of the engine
C17_Witness ==
    /\ app_call = "analyze"
    /\ RunCompleted
    /\ Succeeded
    /\ an_text.words # <<>>
    /\ cur_custom_dict.exists
    /\ cur_custom_dict.content # an_custom_dict
    /\ cur_thresholds.exists
    /\ cur_thresholds.content # an_thresholds

(***************************************************************************)
(* Persistence of the tuner's operations, checked under SpecPersist.       *)
(***************************************************************************)
\* C21: after a build_custom_dict that returned, custom_dict.json and the timestamped
\* copy both hold the lexicon in memory; after an optimize_thresholds that returned,
\* thresholds.json and the timestamped copy both hold the thresholds in memory; and
\* a call of either that raised while collecting (the primitive failed) left the
\* lexicon, the thresholds and the four files as they were before the call.
C21_PersistedOrUntouched ==
    [][/\ (tn_call'.op = "build_custom_dict" /\ ~tn_raised') =>
              /\ cur_custom_dict' = File(custom_dict')
              /\ ts_custom_dict' = File(custom_dict')
       /\ (tn_call'.op = "optimize_thresholds" /\ ~tn_raised') =>
              /\ cur_thresholds' = File(thresholds')
              /\ ts_thresholds' = File(thresholds')
       /\ (tn_call'.op \in {"build_custom_dict", "optimize_thresholds"} /\ tn_raised') =>
              UNCHANGED <<custom_dict, thresholds, cur_custom_dict, ts_custom_dict,
                          cur_thresholds, ts_thresholds>>]_vars

\* a build has raised on a tuner whose earlier build and search had persisted a
\* lexicon and thresholds other than those of a new tuner
C21_Witness ==
    /\ tn_call.op = "build_custom_dict"
    /\ tn_raised
    /\ custom_dict # <<>>
    /\ cur_custom_dict = File(custom_dict)
    /\ thresholds # [positive |-> Rat(7, 10), negative |-> Rat(3, 10)]
    /\ cur_thresholds = File(thresholds)

====
